---- MODULE Spec2Model ----
(***************************************************************************)
(* Model of package retry (aqwari.net/retry): stateless backoff            *)
(* strategies.  A Strategy is a function from a retry counter to a         *)
(* time.Duration; generators build one from scratch and combinators wrap   *)
(* a base Strategy.  The sources hold four revisions of the package; the   *)
(* model keeps them apart with the variable rev.                           *)
(*                                                                         *)
(* A Strategy value is modelled as the chain of closures that built it:    *)
(* a sequence of layers, the generator first and the outermost combinator  *)
(* last.  The empty chain is the nil Strategy.  Go's int and               *)
(* time.Duration are both 64 bits wide; the model keeps two's-complement   *)
(* arithmetic at a width of 16 bits, with the time units scaled to fit.    *)
(***************************************************************************)
EXTENDS Integers, Sequences, FiniteSets, TLC

VARIABLES rev, strat, ctorPanic, called, try, res, args, shared, given,
          round, pc, lock, gen, seen

vars == <<rev, strat, ctorPanic, called, try, res, args, shared, given,
          round, pc, lock, gen, seen>>

(***************************************************************************)
(* Bounds of the model.                                                    *)
(***************************************************************************)
MaxLen == 2      \* longest argument list given to a table or a prefix
MaxTry == 4      \* largest small retry counter passed to a Strategy
NegTry == 2      \* retry counters down to -NegTry are passed
MaxDepth == 1    \* most combinators stacked on one base
MaxRounds == 14  \* iterations of the caller's retry loop
NumCallers == 2  \* goroutines that use the package at once
RngPeriod == 3   \* states of a pseudorandom generator told apart

(***************************************************************************)
(* Integer arithmetic.  IntBits stands for the 64 bits of Go's int, int64  *)
(* and time.Duration; Int64(x) is the two's-complement value an            *)
(* arithmetic result x is stored as.                                       *)
(***************************************************************************)
IntBits == 16
MaxInt64 == 32767
MinInt64 == -32768

Int64(x) == ((x + 32768) % 65536) - 32768

\* The units of package time, scaled to the modelled width.
Millisecond == 2
Second == 6
Minute == 60 * Second
Hour == 60 * Minute

\* The package revisions found in the sources.
RevSeconds == "retry.go:1-113"
RevPrepend == "part_000:269-447"
RevFixed == "part_000:1-267"
RevIntervals == "retry.go:115-371"
Revs == {RevSeconds, RevPrepend, RevFixed, RevIntervals}

\* The outcome of calling a Strategy: a duration, or a run-time panic.
Ok(v) == [panic |-> FALSE, val |-> v]
Panic == [panic |-> TRUE, val |-> 0]

\* One closure of the chain: the function that built it and what it captured.
Layer(op, dur, n) == [op |-> op, dur |-> dur, n |-> n]

GeneratorOps == {"Exponential", "ExponentialMaxInt", "ExponentialMaxDur",
                 "ExponentialNs", "Intervals", "Fixed", "Milliseconds",
                 "Seconds", "MillisecondsUnguarded", "SecondsUnguarded"}

CombinatorOps == {"Splay", "SplayShared", "SplaySeconds", "Scale",
                  "ScaleSeconds", "Units", "Add", "Sub", "Unshift",
                  "Prepend", "Shift", "Min", "Max", "Floor", "Ceil",
                  "Overwrite"}

Depth(s) == Cardinality({i \in DOMAIN s : s[i].op \in CombinatorOps})

(***************************************************************************)
(* Generators.  Each operator is the closure a generator returns, applied  *)
(* to the captured arguments and the retry counter.                        *)
(***************************************************************************)
\* ExpLoop without the test that stops the doubling before it overflows.
RECURSIVE ExpLoopUnguarded(_, _, _)
ExpLoopUnguarded(x, i, n) ==
    IF i >= n THEN x ELSE ExpLoopUnguarded(Int64(x * 2), i + 1, n)

RECURSIVE ExpLoop(_, _, _)
ExpLoop(x, i, n) ==
    IF i >= n THEN x
    ELSE IF x > MaxInt64 \div 2 THEN MaxInt64
    ELSE ExpLoop(Int64(x * 2), i + 1, n)

Exponential(units, n) ==
    IF n < 0 THEN 0 ELSE ExpLoop(units, 0, n)

ExponentialNs(n) ==
    IF n < 0 THEN 0 ELSE ExpLoop(1, 0, n)

\* for i := 0; i < nth; i++ { x *= 2 } on an int
RECURSIVE DoubleLoop(_, _, _)
DoubleLoop(x, i, nth) ==
    IF i >= nth THEN x ELSE DoubleLoop(Int64(x * 2), i + 1, nth)

ExponentialMaxInt(max, nth) ==
    LET ceil == IF max < 0 THEN MaxInt64 ELSE Int64(Second * max)
        val == Int64(Second * DoubleLoop(1, 0, nth))
    IN  IF val < 0 \/ val > ceil THEN ceil ELSE val

ExponentialMaxDur(max, nth) ==
    LET ceil == IF max < 0 THEN MaxInt64 ELSE max
        val == Int64(Second * DoubleLoop(1, 0, nth))
    IN  IF val < 0 \/ val > ceil THEN ceil ELSE val

\* Go's slices are indexed from 0, TLA+ sequences from 1.
Intervals(dur, nth) ==
    IF Len(dur) = 0 THEN 0
    ELSE LET n == IF nth < 0 THEN 0 ELSE nth
         IN  IF n < Len(dur) THEN dur[n + 1] ELSE dur[Len(dur)]

Fixed(dur, nth) ==
    IF Len(dur) = 0 THEN 0
    ELSE LET n == IF nth < 0 THEN 0 ELSE nth
         IN  IF n < Len(dur) THEN dur[n + 1] ELSE dur[Len(dur)]

Milliseconds(ms, nth) ==
    IF Len(ms) = 0 THEN 0
    ELSE LET n == IF nth < 0 THEN 0 ELSE nth
         IN  IF n < Len(ms) THEN Int64(Millisecond * ms[n + 1])
             ELSE Int64(Millisecond * ms[Len(ms)])

\* Seconds with attempts past the end starting over at the first entry.
SecondsWrapAround(secs, nth) ==
    IF Len(secs) = 0 THEN 0
    ELSE LET n == IF nth < 0 THEN 0 ELSE nth
         IN  Int64(Second * secs[(n % Len(secs)) + 1])

Seconds(secs, nth) ==
    IF Len(secs) = 0 THEN 0
    ELSE LET n == IF nth < 0 THEN 0 ELSE nth
         IN  IF n < Len(secs) THEN Int64(Second * secs[n + 1])
             ELSE Int64(Second * secs[Len(secs)])

\* The first revision has no guard for an empty list: ms[len(ms)-1] is then
\* ms[-1], an index out of range, which panics.
MillisecondsUnguarded(ms, nth) ==
    LET n == IF nth < 0 THEN 0 ELSE nth
    IN  IF n < Len(ms) THEN Ok(Int64(Millisecond * ms[n + 1]))
        ELSE IF Len(ms) = 0 THEN Panic
        ELSE Ok(Int64(Millisecond * ms[Len(ms)]))

SecondsUnguarded(secs, nth) ==
    LET n == IF nth < 0 THEN 0 ELSE nth
    IN  IF n < Len(secs) THEN Ok(Int64(Second * secs[n + 1]))
        ELSE IF Len(secs) = 0 THEN Panic
        ELSE Ok(Int64(Second * secs[Len(secs)]))

(***************************************************************************)
(* Combinators.  Eval(s, k, n) is the set of outcomes that calling the     *)
(* Strategy made of the first k closures of chain s with retry counter n   *)
(* can have: one outcome unless a random draw is involved.  Each           *)
(* combinator operator is the closure the combinator returns, for the      *)
(* k-th closure of s, whose base is the Strategy of the first k-1.         *)
(* Calling a nil Strategy (k = 0) is a nil function call, which panics.    *)
(***************************************************************************)
RECURSIVE Eval(_, _, _)

\* JitterSum without the overflow correction.
JitterSumUnchecked(val, jitter) == Int64(val + jitter)

\* JitterSum correcting only the overflow past the maximum duration.
JitterSumUpperOnly(val, jitter) ==
    LET j == IF jitter > 0 /\ val > MaxInt64 - jitter THEN -jitter
             ELSE jitter
    IN  Int64(val + j)

\* val + jitter with the overflow correction of Splay.
JitterSum(val, jitter) ==
    LET j == IF jitter > 0 /\ val > MaxInt64 - jitter THEN -jitter
             ELSE IF val < 0 /\ jitter < 0 /\ val < MinInt64 - jitter
                  THEN -jitter
             ELSE jitter
    IN  Int64(val + j)

\* r.Int63n(n) panics unless n > 0 and otherwise returns a value of 0..n-1;
\* r.Int()%2 == 0 is a fair coin.
Splay(s, k, n) ==
    LET duration == s[k].n
    IN  IF duration <= 0 THEN {Panic}
        ELSE UNION {
               IF b.panic THEN {Panic}
               ELSE { Ok(JitterSum(b.val, IF neg THEN -j ELSE j)) :
                        j \in 0..(duration - 1), neg \in BOOLEAN }
               : b \in Eval(s, k - 1, n) }

\* The same closure drawing from the package's shared randomsrc.
SplayShared(s, k, n) ==
    LET d == s[k].n
    IN  IF d <= 0 THEN {Panic}
        ELSE UNION {
               IF b.panic THEN {Panic}
               ELSE { Ok(LET jitter == IF neg THEN -j ELSE j
                             val == b.val
                             adj == IF jitter > 0 /\ val > MaxInt64 - jitter
                                    THEN -jitter
                                    ELSE IF val < 0 /\ jitter < 0
                                            /\ val < MinInt64 - jitter
                                         THEN -jitter
                                    ELSE jitter
                         IN  Int64(val + adj)) :
                        j \in 0..(d - 1), neg \in BOOLEAN }
               : b \in Eval(s, k - 1, n) }

\* Splay(seconds float64) of the first revision: a fixed jitter of
\* float64(time.Second) * seconds; s[k].n counts half seconds (>= 0).
\* The base is called twice.
SplaySeconds(s, k, n) ==
    LET jitter == (Second * s[k].n) \div 2
    IN  UNION { { IF b1.panic \/ b2.panic THEN Panic
                  ELSE LET val == b1.val
                           adj == IF jitter > 0 /\ val > MaxInt64 - jitter
                                  THEN -jitter
                                  ELSE IF val < 0 /\ jitter < 0
                                          /\ val < MinInt64 - jitter
                                       THEN -jitter
                                  ELSE jitter
                       IN  Ok(Int64(b2.val + adj))
                  : b2 \in Eval(s, k - 1, n) }
                : b1 \in Eval(s, k - 1, n) }

Scale(s, k, n) ==
    { IF b.panic THEN Panic ELSE Ok(Int64(b.val * s[k].n)) :
        b \in Eval(s, k - 1, n) }

\* Scale(seconds float64): floor(float64(time.Second) * (base.Seconds() *
\* seconds)); s[k].n counts half seconds (0 or 1), so the scaled value is
\* within the range of a duration.
ScaleSeconds(s, k, n) ==
    { IF b.panic THEN Panic ELSE Ok((b.val * s[k].n) \div 2) :
        b \in Eval(s, k - 1, n) }

Units(s, k, n) ==
    { IF b.panic THEN Panic ELSE Ok(Int64(b.val * s[k].n)) :
        b \in Eval(s, k - 1, n) }

Add(s, k, n) ==
    { IF b.panic THEN Panic ELSE Ok(Int64(b.val + s[k].n)) :
        b \in Eval(s, k - 1, n) }

Sub(s, k, n) ==
    { IF b.panic THEN Panic ELSE Ok(Int64(b.val + s[k].n)) :
        b \in Eval(s, k - 1, n) }

\* Unshift passing its own index to the base.
UnshiftSameIndex(s, k, n) ==
    LET buf == s[k].dur
        nth == IF n < 0 THEN 0 ELSE n
    IN  IF nth < Len(buf) THEN {Ok(buf[nth + 1])}
        ELSE Eval(s, k - 1, nth)

Unshift(s, k, n) ==
    LET buf == s[k].dur
        nth == IF n < 0 THEN 0 ELSE n
    IN  IF nth < Len(buf) THEN {Ok(buf[nth + 1])}
        ELSE Eval(s, k - 1, Int64(nth - Len(buf)))

Prepend(s, k, n) ==
    LET dur == s[k].dur
        nth == IF n < 0 THEN 0 ELSE n
    IN  IF nth < Len(dur) THEN {Ok(dur[nth + 1])}
        ELSE Eval(s, k - 1, Int64(nth - Len(dur)))

\* Shift moving the index the other way.
ShiftBack(s, k, n) == Eval(s, k - 1, Int64(n - s[k].n))

Shift(s, k, n) == Eval(s, k - 1, Int64(n + s[k].n))

\* Min with the comparison turned around.
MinInverted(s, k, n) ==
    { IF b.panic THEN Panic
      ELSE IF b.val > s[k].n THEN Ok(s[k].n) ELSE Ok(b.val) :
        b \in Eval(s, k - 1, n) }

Min(s, k, n) ==
    { IF b.panic THEN Panic
      ELSE IF b.val < s[k].n THEN Ok(s[k].n) ELSE Ok(b.val) :
        b \in Eval(s, k - 1, n) }

Max(s, k, n) ==
    { IF b.panic THEN Panic
      ELSE IF b.val > s[k].n THEN Ok(s[k].n) ELSE Ok(b.val) :
        b \in Eval(s, k - 1, n) }

Floor(s, k, n) ==
    { IF b.panic THEN Panic
      ELSE IF b.val < s[k].n THEN Ok(s[k].n) ELSE Ok(b.val) :
        b \in Eval(s, k - 1, n) }

Ceil(s, k, n) ==
    { IF b.panic THEN Panic
      ELSE IF b.val > s[k].n THEN Ok(s[k].n) ELSE Ok(b.val) :
        b \in Eval(s, k - 1, n) }

\* Overwrite shifting the base's index by the length of the prefix.
OverwriteShifted(s, k, n) ==
    LET dur == s[k].dur
        nth == IF n < 0 THEN 0 ELSE n
    IN  IF nth < Len(dur) THEN {Ok(dur[nth + 1])}
        ELSE Eval(s, k - 1, Int64(nth - Len(dur)))

\* Overwrite passing a negative index on to the base as it is.
OverwriteRawIndex(s, k, n) ==
    LET dur == s[k].dur
        nth == IF n < 0 THEN 0 ELSE n
    IN  IF nth < Len(dur) THEN {Ok(dur[nth + 1])}
        ELSE Eval(s, k - 1, n)

Overwrite(s, k, n) ==
    LET dur == s[k].dur
        nth == IF n < 0 THEN 0 ELSE n
    IN  IF nth < Len(dur) THEN {Ok(dur[nth + 1])}
        ELSE Eval(s, k - 1, nth)

Eval(s, k, n) ==
    IF k = 0 THEN {Panic}
    ELSE LET l == s[k]
         IN CASE l.op = "Exponential" -> {Ok(Exponential(l.n, n))}
              [] l.op = "ExponentialNs" -> {Ok(ExponentialNs(n))}
              [] l.op = "ExponentialMaxInt" -> {Ok(ExponentialMaxInt(l.n, n))}
              [] l.op = "ExponentialMaxDur" -> {Ok(ExponentialMaxDur(l.n, n))}
              [] l.op = "Intervals" -> {Ok(Intervals(l.dur, n))}
              [] l.op = "Fixed" -> {Ok(Fixed(l.dur, n))}
              [] l.op = "Milliseconds" -> {Ok(Milliseconds(l.dur, n))}
              [] l.op = "Seconds" -> {Ok(Seconds(l.dur, n))}
              [] l.op = "MillisecondsUnguarded" ->
                     {MillisecondsUnguarded(l.dur, n)}
              [] l.op = "SecondsUnguarded" -> {SecondsUnguarded(l.dur, n)}
              [] l.op = "Splay" -> Splay(s, k, n)
              [] l.op = "SplayShared" -> SplayShared(s, k, n)
              [] l.op = "SplaySeconds" -> SplaySeconds(s, k, n)
              [] l.op = "Scale" -> Scale(s, k, n)
              [] l.op = "ScaleSeconds" -> ScaleSeconds(s, k, n)
              [] l.op = "Units" -> Units(s, k, n)
              [] l.op = "Add" -> Add(s, k, n)
              [] l.op = "Sub" -> Sub(s, k, n)
              [] l.op = "Unshift" -> Unshift(s, k, n)
              [] l.op = "Prepend" -> Prepend(s, k, n)
              [] l.op = "Shift" -> Shift(s, k, n)
              [] l.op = "Min" -> Min(s, k, n)
              [] l.op = "Max" -> Max(s, k, n)
              [] l.op = "Floor" -> Floor(s, k, n)
              [] l.op = "Ceil" -> Ceil(s, k, n)
              [] l.op = "Overwrite" -> Overwrite(s, k, n)

(***************************************************************************)
(* The arguments the callers of the package pass.                          *)
(***************************************************************************)
\* Retry counters: small ones of either sign, and ones around the width of
\* an int, where repeated doubling overflows.
Tries == ((0 - NegTry)..MaxTry) \cup ((IntBits - 2)..(IntBits + 1))

ExpUnits == {-1, 1, Second, MaxInt64 \div 8, MaxInt64 \div 8 + 1,
             MaxInt64 \div 2, MaxInt64 \div 2 + 1, MaxInt64}

\* Argument lists of ints: rising and falling ones of every length.
IntTables ==
    {<<>>} \cup {[i \in 1..m |-> 2 * i] : m \in 1..MaxLen}
           \cup {[i \in 1..m |-> 2 * (m - i) + 3] : m \in 1..MaxLen}

\* Argument lists of durations, the extreme durations among them.
DurTables ==
    {<<>>} \cup {[i \in 1..m |-> 5 * i] : m \in 1..MaxLen}
           \cup {[i \in 1..m |-> 9 - 4 * i] : m \in 1..MaxLen}
           \cup {<<MinInt64>>, <<MinInt64 + 1>>, <<MaxInt64 - 1>>, <<MaxInt64>>}

Prefixes == {[i \in 1..m |-> 100 + i] : m \in 0..MaxLen}

Spreads == {0, 1, 3}
ScaleUnits == {Millisecond, Second}
Shifts == {-1, 0, 2}
Limits == {-3, 7}
Offsets == {-3, 4}
\* The values a caller stores in a slice it has passed.
Scribbles == {9}

HalfSeconds == {0, 1}
MaxSeconds == {-1, 5}
MaxDurs == {-1, 5 * Second}

(***************************************************************************)
(* The state: the revision of the package in use, the Strategy the caller  *)
(* holds, whether the last constructor call panicked, and the last call    *)
(* of the Strategy with its outcome.  args is the slice the caller passed  *)
(* (as xs...) to the last constructor that takes a list, shared the        *)
(* position of the closure that reads that very slice (0 when the          *)
(* constructor copied it), and given the Strategy with the lists as they   *)
(* were when each constructor was called.                                  *)
(***************************************************************************)
\* The goroutines, and the pseudorandom generators they draw from: the
\* package's randomsrc and the r of the Splay held.
Callers == 1..NumCallers
Generators == {"randomsrc", "r"}

\* The constructors that take a list from the caller.
TableOps ==
    {"Intervals", "Fixed", "Milliseconds", "Seconds",
     "MillisecondsUnguarded", "SecondsUnguarded",
     "Unshift", "Prepend", "Overwrite"}

\* The constructors whose closure reads a copy of the caller's list.
Copies(l) ==
    rev = RevIntervals /\ l.op \in {"Intervals", "Milliseconds", "Unshift"}

Init ==
    /\ rev \in Revs
    /\ strat = <<>>
    /\ ctorPanic = FALSE
    /\ called = FALSE
    /\ try = 0
    /\ res = Ok(0)
    /\ args = <<>>
    /\ shared = 0
    /\ given = <<>>
    /\ round = 0
    /\ pc = [g \in Callers |-> "idle"]
    /\ lock = 0
    /\ gen = [x \in Generators |-> 0]
    /\ seen = [g \in Callers |-> -1]

\* A generator returns a new Strategy.
Generate(l) ==
    /\ strat = <<>>
    /\ ~ctorPanic
    /\ strat' = <<l>>
    /\ called' = FALSE
    /\ try' = 0
    /\ res' = Ok(0)
    /\ args' = IF l.op \in TableOps THEN l.dur ELSE <<>>
    /\ shared' = IF l.op \in TableOps /\ ~Copies(l) THEN 1 ELSE 0
    /\ given' = <<l>>
    /\ UNCHANGED <<rev, ctorPanic, round, pc, lock, gen, seen>>

\* A combinator method is called on the Strategy held: with a nil check it
\* panics on a nil Strategy, and otherwise it returns the new closure.
Combine(l, nilCheck) ==
    /\ ~ctorPanic
    /\ ~called
    /\ Depth(strat) < MaxDepth
    /\ IF nilCheck /\ strat = <<>>
       THEN /\ ctorPanic' = TRUE
            /\ UNCHANGED <<strat, args, shared, given>>
       ELSE /\ ctorPanic' = FALSE
            /\ strat' = Append(strat, l)
            /\ given' = Append(given, l)
            /\ IF l.op \in TableOps
               THEN /\ args' = l.dur
                    /\ shared' = IF Copies(l) THEN 0 ELSE Len(strat) + 1
               ELSE UNCHANGED <<args, shared>>
    /\ called' = FALSE
    /\ try' = 0
    /\ res' = Ok(0)
    /\ UNCHANGED <<rev, round, pc, lock, gen, seen>>

NewExponential(units) ==
    rev = RevIntervals /\ Generate(Layer("Exponential", <<>>, units))

NewExponentialNs ==
    rev = RevFixed /\ Generate(Layer("ExponentialNs", <<>>, 0))

NewExponentialMaxInt(max) ==
    rev = RevSeconds /\ Generate(Layer("ExponentialMaxInt", <<>>, max))

NewExponentialMaxDur(max) ==
    rev = RevPrepend /\ Generate(Layer("ExponentialMaxDur", <<>>, max))

NewIntervals(dur) ==
    rev = RevIntervals /\ Generate(Layer("Intervals", dur, 0))

NewFixed(dur) ==
    rev \in {RevFixed, RevPrepend} /\ Generate(Layer("Fixed", dur, 0))

NewMilliseconds(ms) ==
    /\ rev \in {RevIntervals, RevFixed, RevPrepend}
    /\ Generate(Layer("Milliseconds", ms, 0))

NewSeconds(secs) ==
    /\ rev \in {RevIntervals, RevFixed, RevPrepend}
    /\ Generate(Layer("Seconds", secs, 0))

NewMillisecondsUnguarded(ms) ==
    rev = RevSeconds /\ Generate(Layer("MillisecondsUnguarded", ms, 0))

NewSecondsUnguarded(secs) ==
    rev = RevSeconds /\ Generate(Layer("SecondsUnguarded", secs, 0))

ApplySplay(duration) ==
    rev = RevIntervals /\ Combine(Layer("Splay", <<>>, duration), TRUE)

ApplySplayShared(d) ==
    /\ rev \in {RevFixed, RevPrepend}
    /\ Combine(Layer("SplayShared", <<>>, d), rev = RevFixed)

ApplySplaySeconds(halves) ==
    rev = RevSeconds /\ Combine(Layer("SplaySeconds", <<>>, halves), FALSE)

ApplyScale(units) ==
    rev = RevIntervals /\ Combine(Layer("Scale", <<>>, units), TRUE)

ApplyScaleSeconds(halves) ==
    /\ rev \in {RevSeconds, RevPrepend, RevFixed}
    /\ Combine(Layer("ScaleSeconds", <<>>, halves), rev = RevFixed)

ApplyUnits(units) ==
    rev = RevFixed /\ Combine(Layer("Units", <<>>, units), TRUE)

ApplyAdd(dur) ==
    rev = RevFixed /\ Combine(Layer("Add", <<>>, dur), TRUE)

ApplySub(dur) ==
    rev = RevFixed /\ Combine(Layer("Sub", <<>>, dur), TRUE)

ApplyUnshift(dur) ==
    /\ rev \in {RevIntervals, RevFixed}
    /\ Combine(Layer("Unshift", dur, 0), TRUE)

ApplyPrepend(dur) ==
    rev = RevPrepend /\ Combine(Layer("Prepend", dur, 0), FALSE)

ApplyShift(n) ==
    /\ rev \in {RevIntervals, RevFixed}
    /\ Combine(Layer("Shift", <<>>, n), TRUE)

ApplyMin(min) ==
    rev = RevIntervals /\ Combine(Layer("Min", <<>>, min), TRUE)

ApplyMax(max) ==
    rev = RevIntervals /\ Combine(Layer("Max", <<>>, max), TRUE)

ApplyFloor(min) ==
    rev = RevFixed /\ Combine(Layer("Floor", <<>>, min), TRUE)

ApplyCeil(max) ==
    rev = RevFixed /\ Combine(Layer("Ceil", <<>>, max), TRUE)

ApplyOverwrite(dur) ==
    /\ rev \in {RevIntervals, RevFixed, RevPrepend}
    /\ Combine(Layer("Overwrite", dur, 0), rev # RevPrepend)

\* The caller maps its retry counter through the Strategy it holds.
Invoke(n) ==
    /\ ~ctorPanic
    /\ ~called
    /\ strat # <<>>
    /\ \E r \in Eval(strat, Len(strat), n) :
         /\ called' = TRUE
         /\ try' = n
         /\ res' = r
    /\ UNCHANGED <<rev, strat, ctorPanic, args, shared, given,
                   round, pc, lock, gen, seen>>

\* The caller sleeps for the duration returned and comes back.
Sleep ==
    /\ called
    /\ ~res.panic
    /\ called' = FALSE
    /\ try' = 0
    /\ res' = Ok(0)
    /\ UNCHANGED <<rev, strat, ctorPanic, args, shared, given,
                   round, pc, lock, gen, seen>>

Next ==
    \/ \E u \in ExpUnits : NewExponential(u)
    \/ NewExponentialNs
    \/ \E m \in MaxSeconds : NewExponentialMaxInt(m)
    \/ \E m \in MaxDurs : NewExponentialMaxDur(m)
    \/ \E d \in DurTables : NewIntervals(d)
    \/ \E d \in DurTables : NewFixed(d)
    \/ \E t \in IntTables : NewMilliseconds(t)
    \/ \E t \in IntTables : NewSeconds(t)
    \/ \E t \in IntTables : NewMillisecondsUnguarded(t)
    \/ \E t \in IntTables : NewSecondsUnguarded(t)
    \/ \E d \in Spreads : ApplySplay(d)
    \/ \E d \in Spreads : ApplySplayShared(d)
    \/ \E h \in HalfSeconds : ApplySplaySeconds(h)
    \/ \E u \in ScaleUnits : ApplyScale(u)
    \/ \E h \in HalfSeconds : ApplyScaleSeconds(h)
    \/ \E u \in ScaleUnits : ApplyUnits(u)
    \/ \E d \in Offsets : ApplyAdd(d)
    \/ \E d \in Offsets : ApplySub(d)
    \/ \E p \in Prefixes : ApplyUnshift(p)
    \/ \E p \in Prefixes : ApplyPrepend(p)
    \/ \E n \in Shifts : ApplyShift(n)
    \/ \E m \in Limits : ApplyMin(m)
    \/ \E m \in Limits : ApplyMax(m)
    \/ \E m \in Limits : ApplyFloor(m)
    \/ \E m \in Limits : ApplyCeil(m)
    \/ \E p \in Prefixes : ApplyOverwrite(p)
    \/ \E n \in Tries : Invoke(n)
    \/ Sleep

Spec == Init /\ [][Next]_vars

\* The caller stores v in element i of the slice it passed last.  A closure
\* that reads the slice itself, and not a copy, reads v from now on.
Mutate(i, v) ==
    /\ ~ctorPanic
    /\ ~called
    /\ i \in 1..Len(args)
    /\ args[i] # v
    /\ args' = [args EXCEPT ![i] = v]
    /\ strat' = IF shared = 0 THEN strat
                ELSE [strat EXCEPT ![shared].dur = args']
    /\ UNCHANGED <<rev, ctorPanic, called, try, res, shared, given,
                   round, pc, lock, gen, seen>>

NextMutate ==
    \/ Next
    \/ \E i \in 1..MaxLen : \E v \in Scribbles : Mutate(i, v)

SpecMutate == Init /\ [][NextMutate]_vars

(***************************************************************************)
(* The retry loop of the package's example: a counter that is incremented  *)
(* when the remote call fails and reset when it succeeds, mapped through   *)
(* Exponential(time.Minute).Shift(2).Unshift(time.Hour) to the time to     *)
(* sleep.                                                                  *)
(***************************************************************************)
Backoff ==
    <<Layer("Exponential", <<>>, Minute),
      Layer("Shift", <<>>, 2),
      Layer("Unshift", <<Hour>>, 0)>>

InitLoop ==
    /\ rev = RevIntervals
    /\ strat = Backoff
    /\ ctorPanic = FALSE
    /\ called = FALSE
    /\ try = 0
    /\ res = Ok(0)
    /\ args = <<Hour>>
    /\ shared = 0
    /\ given = Backoff
    /\ round = 0
    /\ pc = [g \in Callers |-> "idle"]
    /\ lock = 0
    /\ gen = [x \in Generators |-> 0]
    /\ seen = [g \in Callers |-> -1]

\* The end of an iteration: backoff(try) for the counter n it has set.
Backoffs(n) ==
    /\ round' = round + 1
    /\ called' = TRUE
    /\ \E r \in Eval(strat, Len(strat), n) : res' = r
    /\ UNCHANGED <<rev, strat, ctorPanic, args, shared, given,
                   pc, lock, gen, seen>>

\* getdump returned an error: try++.
Failure ==
    /\ round < MaxRounds
    /\ try' = try + 1
    /\ Backoffs(try + 1)

\* getdump returned nil: try = 0.
Success ==
    /\ round < MaxRounds
    /\ try' = 0
    /\ Backoffs(0)

NextLoop == Failure \/ Success

SpecLoop == InitLoop /\ [][NextLoop]_vars

(***************************************************************************)
(* Goroutines that use the package at once.  Each of them, again and       *)
(* again, calls the splayed Strategy they share or, where the package has  *)
(* it, randint64 (as the construction of another Splay does).  A draw      *)
(* from a *rand.Rand reads the generator's state and then stores the next  *)
(* state: seen[g] is the state goroutine g has read and not yet stored     *)
(* the successor of, and -1 outside a draw.  lock is the goroutine that    *)
(* holds randomsrc's Mutex, 0 for none.                                    *)
(***************************************************************************)
\* The splayed Strategy the goroutines share.
Splayed ==
    IF rev = RevIntervals
    THEN <<Layer("Intervals", <<10>>, 0), Layer("Splay", <<>>, 3)>>
    ELSE <<Layer("Fixed", <<10>>, 0), Layer("SplayShared", <<>>, 3)>>

InitRand ==
    /\ rev \in {RevIntervals, RevFixed, RevPrepend}
    /\ strat = Splayed
    /\ ctorPanic = FALSE
    /\ called = FALSE
    /\ try = 0
    /\ res = Ok(0)
    /\ args = <<10>>
    /\ shared = IF rev = RevIntervals THEN 0 ELSE 1
    /\ given = Splayed
    /\ round = 0
    /\ pc = [g \in Callers |-> "idle"]
    /\ lock = 0
    /\ gen = [x \in Generators |-> 0]
    /\ seen = [g \in Callers |-> -1]

\* The generator goroutine g draws from where it is: randint64 draws from
\* randomsrc; the closure of Splay draws from its own r in the revision
\* that seeds one, and from randomsrc in the others.
GenOf(g) ==
    IF pc[g] = "Int63" \/ rev # RevIntervals THEN "randomsrc" ELSE "r"

\* randomsrc.Lock() in randint64.
RandLock(g) ==
    /\ rev = RevIntervals
    /\ pc[g] = "idle"
    /\ lock = 0
    /\ lock' = g
    /\ pc' = [pc EXCEPT ![g] = "Int63"]
    /\ UNCHANGED <<rev, strat, ctorPanic, called, try, res, args, shared,
                   given, round, gen, seen>>

\* randomsrc.Unlock() in randint64.
RandUnlock(g) ==
    /\ pc[g] = "Unlock"
    /\ lock' = 0
    /\ pc' = [pc EXCEPT ![g] = "idle"]
    /\ UNCHANGED <<rev, strat, ctorPanic, called, try, res, args, shared,
                   given, round, gen, seen>>

\* The closure returned by Splay is called.
Call(g) ==
    /\ pc[g] = "idle"
    /\ pc' = [pc EXCEPT ![g] = "Int63n"]
    /\ UNCHANGED <<rev, strat, ctorPanic, called, try, res, args, shared,
                   given, round, lock, gen, seen>>

\* The first half of Int63, Int63n or Int: the generator's state is read.
DrawLoad(g) ==
    /\ pc[g] \in {"Int63", "Int63n", "Int"}
    /\ seen[g] = -1
    /\ seen' = [seen EXCEPT ![g] = gen[GenOf(g)]]
    /\ UNCHANGED <<rev, strat, ctorPanic, called, try, res, args, shared,
                   given, round, pc, lock, gen>>

\* The second half: the successor of the state read is stored.
DrawStore(g) ==
    /\ seen[g] >= 0
    /\ gen' = [gen EXCEPT ![GenOf(g)] = (seen[g] + 1) % RngPeriod]
    /\ seen' = [seen EXCEPT ![g] = -1]
    /\ pc' = [pc EXCEPT ![g] = CASE pc[g] = "Int63" -> "Unlock"
                                 [] pc[g] = "Int63n" -> "Int"
                                 [] OTHER -> "sum"]
    /\ UNCHANGED <<rev, strat, ctorPanic, called, try, res, args, shared,
                   given, round, lock>>

\* val := base(try), and val + jitter is returned.
Return(g) ==
    /\ pc[g] = "sum"
    /\ pc' = [pc EXCEPT ![g] = "idle"]
    /\ called' = TRUE
    /\ try' = 0
    /\ \E r \in Eval(strat, Len(strat), 0) : res' = r
    /\ UNCHANGED <<rev, strat, ctorPanic, args, shared, given, round,
                   lock, gen, seen>>

NextRand ==
    \E g \in Callers :
        \/ RandLock(g)
        \/ RandUnlock(g)
        \/ Call(g)
        \/ DrawLoad(g)
        \/ DrawStore(g)
        \/ Return(g)

SpecRand == InitRand /\ [][NextRand]_vars

(***************************************************************************)
(* Properties.                                                             *)
(***************************************************************************)
\* The outermost closure of the Strategy held, and the outcomes its base
\* Strategy can have for retry counter n.
Top == strat[Len(strat)]
BaseAt(n) == Eval(strat, Len(strat) - 1, n)
Returned == called /\ ~res.panic

\* min(u * 2^n, MaxInt64) for u > 0 and n >= 0, in unbounded integers.
SaturatedDouble(u, n) ==
    IF n >= IntBits - 1 THEN MaxInt64
    ELSE IF u * (2 ^ n) > MaxInt64 THEN MaxInt64 ELSE u * (2 ^ n)

\* C1: for every unit u > 0 and attempt n >= 0, Exponential(u)(n) is
\* min(u * 2^n, MaxInt64): it is strictly greater than Exponential(u)(n-1)
\* while below the maximum duration, stays at the maximum from then on, and
\* is never a wrapped (negative or smaller) value.
C1_ExponentialSaturates ==
    (called /\ Len(strat) = 1 /\ Top.op = "Exponential" /\ Top.n > 0
        /\ try >= 0)
    => /\ res = Ok(SaturatedDouble(Top.n, try))
       /\ res.val > 0
       /\ LET prev == Exponential(Top.n, try - 1)
          IN  /\ res.val >= prev
              /\ res.val < MaxInt64 => res.val > prev
              /\ prev = MaxInt64 => res.val = MaxInt64

\* Exponential(1) has doubled up to the width of a duration and returned the
\* maximum duration.
C1_Witness ==
    /\ called /\ Len(strat) = 1 /\ Top.op = "Exponential" /\ Top.n = 1
    /\ try = IntBits - 1
    /\ res = Ok(MaxInt64)

\* The unit of a table generator.
TableUnit(op) ==
    CASE op = "Intervals" -> 1
      [] op = "Milliseconds" -> Millisecond
      [] op = "Seconds" -> Second

ShiftExample ==
    <<Layer("Seconds", <<1, 2, 3, 4, 5, 6, 7>>, 0), Layer("Shift", <<>>, 2)>>

\* C3: for every base strategy, m >= 0 and attempt n >= 0,
\* base.Shift(m)(n) is base(n + m); Seconds(1..7).Shift(2) yields 3s, 4s,
\* 5s, 6s, 7s and then 7s.
C3_ShiftAddsOffset ==
    (called /\ Len(strat) >= 1 /\ Top.op = "Shift" /\ Top.n >= 0 /\ try >= 0)
    => /\ res \in BaseAt(try + Top.n)
       /\ Eval(ShiftExample, 2, try)
            = {Ok(Second * (IF try + 3 < 7 THEN try + 3 ELSE 7))}

\* A table of two seconds entries shifted by two was called: the base is
\* read past its first entry.
C3_Witness ==
    /\ called /\ Len(strat) = 2 /\ Top.op = "Shift" /\ Top.n = 2
    /\ strat[1].op = "Seconds" /\ strat[1].dur = <<2, 4>>
    /\ try = 0
    /\ res = Ok(Second * 4)

\* C4: for every base strategy and prefix p[0..k], base.Unshift(p...)(n)
\* (Prepend in the revision that has it) is p[n] for 0 <= n <= k and
\* base(n - (k+1)) for n > k.
C4_UnshiftSplicesPrefix ==
    (called /\ Len(strat) >= 1 /\ Top.op \in {"Unshift", "Prepend"}
        /\ try >= 0)
    => LET p == Top.dur
       IN  IF try < Len(p) THEN res = Ok(p[try + 1])
           ELSE res \in BaseAt(try - Len(p))

\* An Unshift of a two-entry prefix was called with 2 and returned what its
\* base returns for 0.
C4_Witness ==
    /\ called /\ Len(strat) = 2 /\ Top.op = "Unshift" /\ Len(Top.dur) = 2
    /\ strat[1].op = "Seconds" /\ strat[1].dur = <<2, 4>>
    /\ try = 2
    /\ res = Ok(Second * 2)

\* C5: for every base strategy and prefix p[0..k], base.Overwrite(p...)(n)
\* is p[n] for 0 <= n <= k and base(n), the index unshifted, for n > k.
C5_OverwriteReplacesPrefix ==
    (called /\ Len(strat) >= 1 /\ Top.op = "Overwrite" /\ try >= 0)
    => LET p == Top.dur
       IN  IF try < Len(p) THEN res = Ok(p[try + 1])
           ELSE res \in BaseAt(try)

\* An Overwrite of a one-entry prefix was called with 1 and returned the
\* base's second entry.
C5_Witness ==
    /\ called /\ Len(strat) = 2 /\ Top.op = "Overwrite" /\ Len(Top.dur) = 1
    /\ strat[1].op = "Seconds" /\ strat[1].dur = <<2, 4>>
    /\ try = 1
    /\ res = Ok(Second * 4)

\* C6: for every base strategy, bound m and attempt n (negative too),
\* base.Min(m)(n) (Floor) is max(base(n), m), so >= m, and base.Max(m)(n)
\* (Ceil) is min(base(n), m), so <= m.
C6_MinMaxClamp ==
    (Returned /\ Len(strat) >= 1
        /\ Top.op \in {"Min", "Floor", "Max", "Ceil"})
    => LET m == Top.n
       IN  IF Top.op \in {"Min", "Floor"}
           THEN /\ res.val >= m
                /\ \E b \in BaseAt(try) :
                     ~b.panic /\ res.val = (IF b.val > m THEN b.val ELSE m)
           ELSE /\ res.val <= m
                /\ \E b \in BaseAt(try) :
                     ~b.panic /\ res.val = (IF b.val < m THEN b.val ELSE m)

\* Min raised a base value below its bound, for a negative attempt.
C6_Witness ==
    /\ Returned /\ Len(strat) = 2 /\ Top.op = "Min" /\ Top.n = 7
    /\ strat[1].op = "Intervals" /\ strat[1].dur = <<5, 10>>
    /\ try < 0
    /\ res.val = 7

\* C7: for every base strategy, spread s > 0 and attempt n, every value
\* base.Splay(s)(n) can return lies within [base(n) - s, base(n) + s].
C7_SplayWithinSpread ==
    (Returned /\ Len(strat) >= 1 /\ Top.op = "Splay" /\ Top.n > 0)
    => \E b \in BaseAt(try) :
         /\ ~b.panic
         /\ b.val - Top.n <= res.val
         /\ res.val <= b.val + Top.n

\* Splay of the maximum duration returned a value below it: the jitter
\* was turned around instead of overflowing.
C7_Witness ==
    /\ Returned /\ Len(strat) = 2 /\ Top.op = "Splay" /\ Top.n = 3
    /\ strat[1].op = "Intervals" /\ strat[1].dur = <<MaxInt64>>
    /\ res.val = MaxInt64 - 2

\* C8: for every base strategy, duration d and attempt n, base.Sub(d)(n) is
\* base(n) - d and base.Add(d)(n) is base(n) + d, unclamped.
C8_SubSubtracts ==
    (Returned /\ Len(strat) >= 1 /\ Top.op \in {"Add", "Sub"})
    => \E b \in BaseAt(try) :
         /\ ~b.panic
         /\ res.val = Int64(IF Top.op = "Add" THEN b.val + Top.n
                            ELSE b.val - Top.n)

\* C9: a combinator applied to a nil base Strategy fails when it is
\* applied: no combinator returns a Strategy whose base is nil.
C9_NilBaseRejected ==
    Len(strat) >= 1 => strat[1].op \in GeneratorOps

\* C10: once a Strategy has been constructed from a generator, calling it
\* with any attempt returns a duration and never panics.
C10_EvaluationNeverPanics ==
    (called /\ Len(strat) >= 1 /\ strat[1].op \in GeneratorOps)
    => ~res.panic

\* C11: for every attempt n < 0, each table generator (Intervals, Seconds,
\* Milliseconds) returns what it returns for 0, and Exponential returns 0.
C11_NegativeAttempts ==
    (called /\ Len(strat) = 1 /\ try < 0)
    => /\ Top.op \in {"Intervals", "Fixed", "Milliseconds", "Seconds",
                      "MillisecondsUnguarded", "SecondsUnguarded"}
            => res \in Eval(strat, 1, 0)
       /\ Top.op \in {"Exponential", "ExponentialNs", "ExponentialMaxInt",
                      "ExponentialMaxDur"}
            => res = Ok(0)

\* The product v * u where a duration can hold it, and the nearest extreme
\* duration where it cannot.
SaturatedProduct(v, u) ==
    IF v * u > MaxInt64 THEN MaxInt64
    ELSE IF v * u < MinInt64 THEN MinInt64
    ELSE v * u

\* C12: for every base value v and unit u, base.Scale(u)(n) (Units in the
\* revision that has it) is v * u where that is representable as a duration
\* and otherwise saturates; it is never a wrapped-around value.
C12_ScaleSaturates ==
    (Returned /\ Len(strat) >= 1 /\ Top.op \in {"Scale", "Units"})
    => \E b \in BaseAt(try) :
         ~b.panic /\ res.val = SaturatedProduct(b.val, Top.n)

\* The ceiling of the Exponential that takes one, as a duration.
CeilingOf(l) ==
    IF l.op = "ExponentialMaxInt" THEN Second * l.n ELSE l.n

\* C15: Exponential(max) with a ceiling max >= 0 returns, for every attempt
\* n >= 0, min(2^n seconds, ceiling): never more than the ceiling, never
\* less than for a smaller n, and the ceiling for every n from where 2^n
\* seconds reaches it, also where 2^n overflows an int.
C15_CeilingExponential ==
    (called /\ Len(strat) = 1
        /\ Top.op \in {"ExponentialMaxInt", "ExponentialMaxDur"}
        /\ Top.n >= 0 /\ try >= 0)
    => LET ceiling == CeilingOf(Top)
           exact == Second * (2 ^ try)
       IN  res = Ok(IF exact < ceiling THEN exact ELSE ceiling)

\* C17: for every base value v of the full range of durations and every
\* jitter j drawn with |j| < spread, Splay's sum does not overflow: where
\* v + j would leave the range of a duration on either side the jitter is
\* negated, so the value returned is the exact integer v + j or v - j.
C17_SplaySumExact ==
    (Returned /\ Len(strat) >= 1 /\ Top.op = "Splay" /\ Top.n > 0)
    => /\ \A b \in BaseAt(try) : \A j \in (1 - Top.n)..(Top.n - 1) :
            ~b.panic =>
              LET sum == JitterSum(b.val, j)
              IN  /\ sum \in {b.val + j, b.val - j}
                  /\ (b.val + j > MaxInt64 \/ b.val + j < MinInt64)
                       => sum = b.val - j
                  /\ (b.val + j <= MaxInt64 /\ b.val + j >= MinInt64)
                       => sum = b.val + j
       /\ \E b \in BaseAt(try) : \E j \in (1 - Top.n)..(Top.n - 1) :
            ~b.panic /\ res.val \in {b.val + j, b.val - j}

\* Splay of the minimum duration returned a value above it: a negative
\* jitter was negated instead of overflowing.
C17_Witness ==
    /\ Returned /\ Len(strat) = 2 /\ Top.op = "Splay" /\ Top.n = 3
    /\ strat[1].op = "Intervals" /\ strat[1].dur = <<MinInt64>>
    /\ res.val = MinInt64 + 2

\* base.Shift(m).Unshift(p...) for the base and the prefix p, of length m,
\* of the Overwrite held.
ShiftThenUnshift ==
    SubSeq(strat, 1, Len(strat) - 1)
        \o <<Layer("Shift", <<>>, Len(Top.dur)),
             Layer("Unshift", Top.dur, 0)>>

\* C18: for every base strategy, every prefix p of length m >= 0 and every
\* attempt n (negative included), base.Overwrite(p...)(n) returns what
\* base.Shift(m).Unshift(p...)(n) returns.
C18_OverwriteIsShiftUnshift ==
    (called /\ Len(strat) >= 1 /\ Top.op = "Overwrite")
    => /\ res \in Eval(ShiftThenUnshift, Len(strat) + 1, try)
       /\ Eval(strat, Len(strat), try)
            = Eval(ShiftThenUnshift, Len(strat) + 1, try)

\* An Overwrite with an empty prefix over Exponential was called with a
\* negative attempt and returned the base's value for 0.
C18_Witness ==
    /\ called /\ Len(strat) = 2 /\ Top.op = "Overwrite" /\ Len(Top.dur) = 0
    /\ strat[1].op = "Exponential" /\ strat[1].n = Second
    /\ try < 0
    /\ res = Ok(Second)

\* C13: a Strategy built from a sequence of the caller (Intervals, Seconds,
\* Milliseconds, Unshift, Overwrite) holds that sequence by value: after the
\* caller has stored into its sequence, every call of the Strategy returns
\* what it returned for the sequence as it was at construction.
C13_CapturedByValue ==
    (called /\ rev = RevIntervals)
    => res \in Eval(given, Len(given), try)

\* C16 as stated: in the loop that resets its counter on success and
\* increments it on failure, with Exponential(1 minute).Shift(2)
\* .Unshift(1 hour), the sleep after every success is 1 hour and the sleep
\* after the k-th failure in a row is 2^(k+1) minutes, whatever the
\* sequence of successes and failures.
C16_LoopSleeps ==
    (called /\ strat = Backoff)
    => res = Ok(IF try = 0 THEN Hour ELSE Minute * (2 ^ (try + 1)))

\* C16 amended: the sleep after every success is 1 hour, and the sleep
\* after the k-th failure in a row is 2^(k+1) minutes where a duration can
\* hold that many, and the maximum duration for every larger k.
C16_LoopSleepsSaturating ==
    (called /\ strat = Backoff)
    => res = Ok(IF try = 0 THEN Hour
                ELSE SaturatedDouble(Minute, try + 1))

\* After a success and then failures in a row, as many as make 2^(k+1)
\* minutes more than a duration holds, the sleep is the maximum duration.
C16_Witness ==
    /\ called /\ strat = Backoff
    /\ try = 7 /\ round = try + 2
    /\ Minute * (2 ^ (try + 1)) > MaxInt64
    /\ res = Ok(MaxInt64)

\* C14: when several callers evaluate splayed Strategies at once (the same
\* splayed Strategy included), every draw from a pseudorandom generator is
\* made by a caller that holds the lock guarding that generator, so no two
\* draws on one generator interleave and no caller reads a generator state
\* another caller is in the middle of updating.
C14_DrawsUnderLock ==
    \A g \in Callers :
        seen[g] >= 0
        => /\ rev = RevIntervals /\ GenOf(g) = "randomsrc" /\ lock = g
           /\ \A h \in Callers \ {g} :
                seen[h] >= 0 => GenOf(h) # GenOf(g)

====
